---- MODULE Spec2Model ----
(***************************************************************************)
(* Model of FlightPlanManager (fbw-a32nx, fmgc/flightplanning/new):       *)
(* the slot table of each unit, its mutation API, the echo-guarded        *)
(* publisher (sendEvent / ignoreSync) and the sync handlers registered in *)
(* the constructor, over a transport that loops a publication back to the *)
(* publisher synchronously and delivers it to every other constructed     *)
(* unit in publish order.                                                  *)
(***************************************************************************)
EXTENDS Integers, Sequences, FiniteSets, TLC

(* ----------------------------- bounds --------------------------------- *)

\* slot indices explored: 0 .. NumIdx-1
NumIdx == 3

\* number of local Mutation API calls explored in one behaviour
MaxCalls == 3

\* number of Mutation API calls explored before a late unit is constructed
MaxCallsLate == 4

\* number of Mutation API calls explored with two callers or three units
MaxCallsFew == 2

\* granularity (ms) with which the passage of time is explored
TickMs == 2500

(* ------------------------ program constants ---------------------------- *)

\* setTimeout(..., 5_000)
SettleDelay == 5000

Index == 0 .. (NumIdx - 1)

Units == {"A", "B", "C"}

\* constructor argument `master`: exactly one master per group
master == [u \in Units |-> u = "A"]

(* ------------------------- FlightPlan values --------------------------- *)

\* an empty array slot / a slot assigned `undefined`
undefined == [index |-> -1, version |-> -1]

\* the JavaScript value null (falsy, but not undefined)
null == [index |-> -2, version |-> -2]

\* JavaScript truthiness of a slot value: objects are truthy
Truthy(v) == v # undefined /\ v # null

\* FlightPlan.empty(index, bus)
empty(index) == [index |-> index, version |-> 0]

\* FlightPlan.clone(newIndex): independent copy tagged with newIndex
clone(plan, newIndex) == [index |-> newIndex, version |-> plan.version]

\* FlightPlan.incrementVersion()
incrementVersion(plan) == [plan EXCEPT !.version = @ + 1]

\* FlightPlan.serialize(): the transport form carries the content, not the tag
serialize(plan) == [version |-> plan.version]

\* FlightPlan.fromSerializedFlightPlan(index, serialized, bus)
fromSerializedFlightPlan(index, ser) == [index |-> index, version |-> ser.version]

(* ------------------------------ events --------------------------------- *)

NoRecord == [i \in {} |-> serialize(undefined)]

NoEvent == [topic |-> "none", planIndex |-> -1, targetPlanIndex |-> -1, plans |-> NoRecord]

Event(topic, planIndex, targetPlanIndex) ==
    [topic |-> topic, planIndex |-> planIndex, targetPlanIndex |-> targetPlanIndex,
     plans |-> NoRecord]

ResponsePacket(rec) ==
    [topic |-> "syncResponse", planIndex |-> -1, targetPlanIndex |-> -1, plans |-> rec]

(* --------------------------- error kinds ------------------------------- *)

NoErr == "none"

\* Error('Tried to access non-existent flight plan at index #i')
SlotNotFound == "SlotNotFound"

\* Error('Tried to create existent flight plan at index #i')
SlotAlreadyOccupied == "SlotAlreadyOccupied"

(* The outcome of running a method on a slot table: the table it leaves,   *)
(* the error it threw (NoErr when it returned), the event it handed to     *)
(* sendEvent (NoEvent when none) and the value it returned.                *)
Ret(t, err, send, value) == [plans |-> t, err |-> err, send |-> send, value |-> value]

\* private plans: FlightPlan[] = []
EmptyTable == [i \in Index |-> undefined]

(* ----------------------- slot table and mutation API ------------------- *)

\* has(index): this.plans[index] !== undefined
has(t, index) == t[index] # undefined

\* assertFlightPlanExists(index): TRUE when it returns, FALSE when it throws
assertFlightPlanExists(t, index) == Truthy(t[index])

\* assertFlightPlanDoesntExist(index): TRUE when it returns, FALSE when it throws
assertFlightPlanDoesntExist(t, index) == ~Truthy(t[index])

\* get(index)
get(t, index) ==
    IF ~assertFlightPlanExists(t, index)
    THEN Ret(t, SlotNotFound, NoEvent, undefined)
    ELSE Ret(t, NoErr, NoEvent, t[index])

\* set(index, flightPlan)
set(t, index, flightPlan) == [t EXCEPT ![index] = flightPlan]

\* create without its assertFlightPlanDoesntExist call: an occupied slot is overwritten
create_noAssert(t, index, notify) ==
    Ret([t EXCEPT ![index] = empty(index)], NoErr,
        IF notify THEN Event("create", index, -1) ELSE NoEvent, undefined)

\* create(index, notify)
create(t, index, notify) ==
    IF ~assertFlightPlanDoesntExist(t, index)
    THEN Ret(t, SlotAlreadyOccupied, NoEvent, undefined)
    ELSE Ret([t EXCEPT ![index] = empty(index)], NoErr,
             IF notify THEN Event("create", index, -1) ELSE NoEvent, undefined)

\* delete written as this.plans.splice(index, 1): the later slots move down by one
delete_splice(t, index, notify) ==
    IF ~assertFlightPlanExists(t, index)
    THEN Ret(t, SlotNotFound, NoEvent, undefined)
    ELSE Ret([i \in Index |->
                 IF i < index THEN t[i]
                 ELSE IF i + 1 \in Index THEN t[i + 1] ELSE undefined],
             NoErr,
             IF notify THEN Event("delete", index, -1) ELSE NoEvent, undefined)

\* delete written as this.plans[index] = null
delete_null(t, index, notify) ==
    IF ~assertFlightPlanExists(t, index)
    THEN Ret(t, SlotNotFound, NoEvent, undefined)
    ELSE Ret([t EXCEPT ![index] = null], NoErr,
             IF notify THEN Event("delete", index, -1) ELSE NoEvent, undefined)

\* delete(index, notify)
delete(t, index, notify) ==
    IF ~assertFlightPlanExists(t, index)
    THEN Ret(t, SlotNotFound, NoEvent, undefined)
    ELSE Ret([t EXCEPT ![index] = undefined], NoErr,
             IF notify THEN Event("delete", index, -1) ELSE NoEvent, undefined)

\* deleteAll written as a loop of this.delete(i, false): it throws at the first empty slot
deleteAll_byDelete(t, notify) ==
    IF \A i \in Index : Truthy(t[i])
    THEN Ret(EmptyTable, NoErr,
             IF notify THEN Event("deleteAll", -1, -1) ELSE NoEvent, undefined)
    ELSE LET stop == CHOOSE i \in Index :
                        ~Truthy(t[i]) /\ \A j \in Index : j < i => Truthy(t[j])
         IN  Ret([i \in Index |-> IF i < stop THEN undefined ELSE t[i]],
                 SlotNotFound, NoEvent, undefined)

\* deleteAll(notify): this.plans.length = 0
deleteAll(t, notify) ==
    Ret(EmptyTable, NoErr,
        IF notify THEN Event("deleteAll", -1, -1) ELSE NoEvent, undefined)

\* copy without its incrementVersion call
copy_noIncrement(t, from, to, notify) ==
    IF ~assertFlightPlanExists(t, from)
    THEN Ret(t, SlotNotFound, NoEvent, undefined)
    ELSE Ret(set(t, to, clone(get(t, from).value, to)), NoErr,
             IF notify THEN Event("copy", from, to) ELSE NoEvent, undefined)

\* copy(from, to, notify)
copy(t, from, to, notify) ==
    IF ~assertFlightPlanExists(t, from)
    THEN Ret(t, SlotNotFound, NoEvent, undefined)
    ELSE LET newPlan == clone(get(t, from).value, to)
             t1 == set(t, to, newPlan)
             t2 == set(t1, to, incrementVersion(get(t1, to).value))
         IN  Ret(t2, NoErr,
                 IF notify THEN Event("copy", from, to) ELSE NoEvent, undefined)

\* swap publishing on the copy topic
swap_copyTopic(t, a, b, notify) ==
    IF ~assertFlightPlanExists(t, a) \/ ~assertFlightPlanExists(t, b)
    THEN Ret(t, SlotNotFound, NoEvent, undefined)
    ELSE LET planA == get(t, a).value
             planB == get(t, b).value
             d1 == delete(t, a, FALSE)
             d2 == delete(d1.plans, b, FALSE)
         IN  IF d1.err # NoErr THEN Ret(d1.plans, d1.err, NoEvent, undefined)
             ELSE IF d2.err # NoErr THEN Ret(d2.plans, d2.err, NoEvent, undefined)
             ELSE Ret(set(set(d2.plans, a, planB), b, planA), NoErr,
                      IF notify THEN Event("copy", a, b) ELSE NoEvent, undefined)

\* swap(a, b, notify)
swap(t, a, b, notify) ==
    IF ~assertFlightPlanExists(t, a) \/ ~assertFlightPlanExists(t, b)
    THEN Ret(t, SlotNotFound, NoEvent, undefined)
    ELSE LET planA == get(t, a).value
             planB == get(t, b).value
             d1 == delete(t, a, FALSE)
             d2 == delete(d1.plans, b, FALSE)
         IN  IF d1.err # NoErr THEN Ret(d1.plans, d1.err, NoEvent, undefined)
             ELSE IF d2.err # NoErr THEN Ret(d2.plans, d2.err, NoEvent, undefined)
             ELSE Ret(set(set(d2.plans, a, planB), b, planA), NoErr,
                      IF notify THEN Event("swap", a, b) ELSE NoEvent, undefined)

(* ---------------------------- sync handlers ---------------------------- *)

\* the slot whose plan is written last under key k by the for-of loop
LastSlotTagged(t, k) ==
    CHOOSE i \in Index :
        /\ Truthy(t[i]) /\ t[i].index = k
        /\ \A j \in Index : (Truthy(t[j]) /\ t[j].index = k) => j <= i

\* plansRecord built by the syncRequest handler: keyed by plan.index
plansRecord(t) ==
    [k \in {t[i].index : i \in {j \in Index : Truthy(t[j])}} |->
        serialize(t[LastSlotTagged(t, k)])]

\* the syncRequest handler without its ignoreSync test
onSyncRequest_noGuard(t, ignore, ev) ==
    Ret(t, NoErr, ResponsePacket(plansRecord(t)), undefined)

\* subs.on('flightPlanManager.syncRequest')
onSyncRequest(t, ignore, ev) ==
    IF ~ignore
    THEN Ret(t, NoErr, ResponsePacket(plansRecord(t)), undefined)
    ELSE Ret(t, NoErr, NoEvent, undefined)

\* the syncResponse handler updating only the slots that are occupied locally
onSyncResponse_existingOnly(t, ignore, ev) ==
    Ret([i \in Index |->
            IF i \in DOMAIN ev.plans /\ Truthy(t[i])
            THEN fromSerializedFlightPlan(i, ev.plans[i])
            ELSE t[i]],
        NoErr, NoEvent, undefined)

\* the syncResponse handler emptying the table before it installs the listed plans
onSyncResponse_replaceAll(t, ignore, ev) ==
    Ret([i \in Index |->
            IF i \in DOMAIN ev.plans
            THEN fromSerializedFlightPlan(i, ev.plans[i])
            ELSE undefined],
        NoErr, NoEvent, undefined)

\* subs.on('flightPlanManager.syncResponse'): no ignoreSync test
onSyncResponse(t, ignore, ev) ==
    Ret([i \in Index |->
            IF i \in DOMAIN ev.plans
            THEN fromSerializedFlightPlan(i, ev.plans[i])
            ELSE t[i]],
        NoErr, NoEvent, undefined)

\* subs.on('flightPlanManager.create')
onCreate(t, ignore, ev) ==
    IF ~ignore THEN create(t, ev.planIndex, FALSE) ELSE Ret(t, NoErr, NoEvent, undefined)

\* subs.on('flightPlanManager.delete')
onDelete(t, ignore, ev) ==
    IF ~ignore THEN delete(t, ev.planIndex, FALSE) ELSE Ret(t, NoErr, NoEvent, undefined)

\* subs.on('flightPlanManager.deleteAll')
onDeleteAll(t, ignore, ev) ==
    IF ~ignore THEN deleteAll(t, FALSE) ELSE Ret(t, NoErr, NoEvent, undefined)

\* the copy handler calling this.copy without notify = false
onCopy_notify(t, ignore, ev) ==
    IF ~ignore THEN copy(t, ev.planIndex, ev.targetPlanIndex, TRUE)
    ELSE Ret(t, NoErr, NoEvent, undefined)

\* subs.on('flightPlanManager.copy')
onCopy(t, ignore, ev) ==
    IF ~ignore THEN copy(t, ev.planIndex, ev.targetPlanIndex, FALSE)
    ELSE Ret(t, NoErr, NoEvent, undefined)

\* subs.on('flightPlanManager.swap')
onSwap(t, ignore, ev) ==
    IF ~ignore THEN swap(t, ev.planIndex, ev.targetPlanIndex, FALSE)
    ELSE Ret(t, NoErr, NoEvent, undefined)

\* the subscription of each topic, run on a unit whose table is t and flag is ignore
handle(t, ignore, ev) ==
    CASE ev.topic = "syncRequest"  -> onSyncRequest(t, ignore, ev)
      [] ev.topic = "syncResponse" -> onSyncResponse(t, ignore, ev)
      [] ev.topic = "create"       -> onCreate(t, ignore, ev)
      [] ev.topic = "delete"       -> onDelete(t, ignore, ev)
      [] ev.topic = "deleteAll"    -> onDeleteAll(t, ignore, ev)
      [] ev.topic = "copy"         -> onCopy(t, ignore, ev)
      [] ev.topic = "swap"         -> onSwap(t, ignore, ev)

(* ------------------------------- state --------------------------------- *)

VARIABLES
    booted,      \* booted[u]: unit u has been constructed (its handlers are subscribed)
    plans,       \* plans[u]: the slot table of unit u
    ignoreSync,  \* ignoreSync[u]: the suppressing flag of unit u
    outbox,      \* outbox[u]: the event unit u is publishing (inside syncPub.pub), or NoEvent
    queue,       \* queue[u]: events published by other units, not yet delivered to u
    timer,       \* timer[u]: ms left on the bootstrap timer, -1 when none is pending
    calls,       \* number of local Mutation API calls made so far
    last         \* the entry point that ran last, with its arguments and outcome

vars == <<booted, plans, ignoreSync, outbox, queue, timer, calls, last>>

Entry(u, kind, op, a, b, err, ret) ==
    [unit |-> u, kind |-> kind, op |-> op, a |-> a, b |-> b, err |-> err, ret |-> ret]

Init ==
    /\ booted = [u \in Units |-> master[u]]
    /\ plans = [u \in Units |-> EmptyTable]
    /\ ignoreSync = [u \in Units |-> FALSE]
    /\ outbox = [u \in Units |-> NoEvent]
    /\ queue = [u \in Units |-> <<>>]
    /\ timer = [u \in Units |-> -1]
    /\ calls = 0
    /\ last = Entry("-", "init", "-", -1, -1, NoErr, FALSE)

\* unit u runs nothing: it is constructed and not inside a publish
Idle(u) == booted[u] /\ outbox[u] = NoEvent

\* sendEvent without its this.ignoreSync = true
sendEvent_noFlag(u, ev) ==
    /\ UNCHANGED ignoreSync
    /\ outbox' = [outbox EXCEPT ![u] = ev]

(* sendEvent, first half: this.ignoreSync = true and entry into syncPub.pub *)
sendEvent(u, ev) ==
    /\ ignoreSync' = [ignoreSync EXCEPT ![u] = TRUE]
    /\ outbox' = [outbox EXCEPT ![u] = ev]

\* a method ran on unit u with outcome r: its table is written, its event (if any) sent
Apply(u, r) ==
    /\ plans' = [plans EXCEPT ![u] = r.plans]
    /\ IF r.send # NoEvent
       THEN sendEvent(u, r.send)
       ELSE UNCHANGED <<ignoreSync, outbox>>

\* a local Mutation API call (notify defaults to true)
LocalCall(u, op, a, b, r) ==
    /\ Idle(u)
    /\ calls' = calls + 1
    /\ Apply(u, r)
    /\ last' = Entry(u, "call", op, a, b, r.err, FALSE)
    /\ UNCHANGED <<booted, queue, timer>>

Create(u, i) == LocalCall(u, "create", i, -1, create(plans[u], i, TRUE))

Delete(u, i) == LocalCall(u, "delete", i, -1, delete(plans[u], i, TRUE))

DeleteAll(u) == LocalCall(u, "deleteAll", -1, -1, deleteAll(plans[u], TRUE))

Copy(u, from, to) == LocalCall(u, "copy", from, to, copy(plans[u], from, to, TRUE))

Swap(u, a, b) == LocalCall(u, "swap", a, b, swap(plans[u], a, b, TRUE))

\* a local has(index) call: it reads the table and writes nothing
Has(u, i) ==
    /\ Idle(u)
    /\ has(plans[u], i) \in BOOLEAN
    /\ UNCHANGED vars

\* a local get(index) call: the table is what get leaves of it
Get(u, i) ==
    /\ Idle(u)
    /\ plans' = [plans EXCEPT ![u] = get(plans[u], i).plans]
    /\ UNCHANGED <<booted, ignoreSync, outbox, queue, timer, calls, last>>

(* sendEvent, second half: syncPub.pub(topic, data, true, false) loops the  *)
(* event back to the publisher's own handlers, hands it to the transport   *)
(* for every other constructed unit, and this.ignoreSync = false follows.  *)
Publish(u) ==
    /\ booted[u]
    /\ outbox[u] # NoEvent
    /\ LET ev == outbox[u]
           r == handle(plans[u], ignoreSync[u], ev)
       IN  /\ plans' = [plans EXCEPT ![u] = r.plans]
           /\ queue' = [v \in Units |->
                          IF v # u /\ booted[v] THEN Append(queue[v], ev) ELSE queue[v]]
           /\ IF r.send # NoEvent
              THEN sendEvent(u, r.send)
              ELSE /\ ignoreSync' = [ignoreSync EXCEPT ![u] = FALSE]
                   /\ outbox' = [outbox EXCEPT ![u] = NoEvent]
           /\ last' = Entry(u, "loopback", ev.topic, ev.planIndex, ev.targetPlanIndex,
                            r.err, r.send # NoEvent)
    /\ UNCHANGED <<booted, timer, calls>>

\* the transport delivers the oldest pending event to unit u's handler
Deliver(u) ==
    /\ Idle(u)
    /\ queue[u] # <<>>
    /\ LET ev == Head(queue[u])
           r == handle(plans[u], ignoreSync[u], ev)
       IN  /\ Apply(u, r)
           /\ last' = Entry(u, "replay", ev.topic, ev.planIndex, ev.targetPlanIndex,
                            r.err, r.send # NoEvent)
    /\ queue' = [queue EXCEPT ![u] = Tail(@)]
    /\ UNCHANGED <<booted, timer, calls>>

\* new FlightPlanManager(bus, id, master): a further unit is constructed
Boot(u) ==
    /\ ~booted[u]
    /\ booted' = [booted EXCEPT ![u] = TRUE]
    /\ timer' = [timer EXCEPT ![u] = IF master[u] THEN -1 ELSE SettleDelay]
    /\ UNCHANGED <<plans, ignoreSync, outbox, queue, calls, last>>

\* time passes
Tick ==
    /\ \E u \in Units : timer[u] > 0
    /\ timer' = [u \in Units |->
                    IF timer[u] > 0
                    THEN (IF timer[u] > TickMs THEN timer[u] - TickMs ELSE 0)
                    ELSE timer[u]]
    /\ UNCHANGED <<booted, plans, ignoreSync, outbox, queue, calls, last>>

\* the bootstrap timer armed with setInterval: it fires again every SettleDelay ms
TimerFire_interval(u) ==
    /\ Idle(u)
    /\ timer[u] = 0
    /\ timer' = [timer EXCEPT ![u] = SettleDelay]
    /\ sendEvent(u, Event("syncRequest", -1, -1))
    /\ last' = Entry(u, "timer", "syncRequest", -1, -1, NoErr, TRUE)
    /\ UNCHANGED <<booted, plans, queue, calls>>

\* the bootstrap timer of unit u fires: sendEvent('flightPlanManager.syncRequest')
TimerFire(u) ==
    /\ Idle(u)
    /\ timer[u] = 0
    /\ timer' = [timer EXCEPT ![u] = -1]
    /\ sendEvent(u, Event("syncRequest", -1, -1))
    /\ last' = Entry(u, "timer", "syncRequest", -1, -1, NoErr, TRUE)
    /\ UNCHANGED <<booted, plans, queue, calls>>

\* any local Mutation API call on unit u
Mutate(u) ==
    \/ \E i \in Index : Create(u, i)
    \/ \E i \in Index : Delete(u, i)
    \/ DeleteAll(u)
    \/ \E from \in Index, to \in Index : Copy(u, from, to)
    \/ \E a \in Index, b \in Index : Swap(u, a, b)

\* the units of the two-unit deployment: A is the master, B is not
Pair == {"A", "B"}

(* Two units: the master A calls the Mutation API, B is constructed at any *)
(* moment, requests a snapshot and replays what A publishes.               *)
Next ==
    \/ \E u \in Pair : Boot(u)
    \/ Tick
    \/ \E u \in Pair : TimerFire(u)
    \/ \E u \in Pair : Publish(u)
    \/ \E u \in Pair : Deliver(u)
    \/ calls < MaxCalls /\ Mutate("A")

Spec == Init /\ [][Next]_vars

(* Two units, B constructed at any moment; both call the Mutation API and *)
(* read their tables.                                                      *)
NextBoth ==
    \/ \E u \in Pair : Boot(u)
    \/ Tick
    \/ \E u \in Pair : TimerFire(u)
    \/ \E u \in Pair : Publish(u)
    \/ \E u \in Pair : Deliver(u)
    \/ \E u \in Pair : calls < MaxCalls /\ Mutate(u)
    \/ \E u \in Pair, i \in Index : Has(u, i)
    \/ \E u \in Pair, i \in Index : Get(u, i)

SpecBoth == Init /\ [][NextBoth]_vars

(* Single writer: A and B both run from the start with empty tables, and  *)
(* only A calls the Mutation API.                                          *)
InitSW ==
    /\ booted = [u \in Units |-> u \in Pair]
    /\ plans = [u \in Units |-> EmptyTable]
    /\ ignoreSync = [u \in Units |-> FALSE]
    /\ outbox = [u \in Units |-> NoEvent]
    /\ queue = [u \in Units |-> <<>>]
    /\ timer = [u \in Units |-> IF u \in Pair /\ ~master[u] THEN SettleDelay ELSE -1]
    /\ calls = 0
    /\ last = Entry("-", "init", "-", -1, -1, NoErr, FALSE)

NextSW ==
    \/ Tick
    \/ \E u \in Pair : TimerFire(u)
    \/ \E u \in Pair : Publish(u)
    \/ \E u \in Pair : Deliver(u)
    \/ calls < MaxCalls /\ Mutate("A")

SpecSW == InitSW /\ [][NextSW]_vars

(* Two callers with a budget of MaxCallsFew calls between them.            *)
NextTwo ==
    \/ Boot("B")
    \/ Tick
    \/ \E u \in Pair : TimerFire(u)
    \/ \E u \in Pair : Publish(u)
    \/ \E u \in Pair : Deliver(u)
    \/ calls < MaxCallsFew /\ \E u \in Pair : Mutate(u)

SpecTwo == Init /\ [][NextTwo]_vars

(* SpecTwo with the scheduling of the host: time passes, a timer that is   *)
(* due fires, and a publish call that was entered returns.                 *)
SpecFair ==
    /\ SpecTwo
    /\ WF_vars(Tick)
    /\ \A u \in Pair : WF_vars(TimerFire(u)) /\ WF_vars(Publish(u))

(* Three units: the master A, the only caller; B, constructed long ago,   *)
(* whose request was published and answered while every table was empty;  *)
(* and C, just constructed, whose timer is running.                       *)
Init3 ==
    /\ booted = [u \in Units |-> TRUE]
    /\ plans = [u \in Units |-> EmptyTable]
    /\ ignoreSync = [u \in Units |-> FALSE]
    /\ outbox = [u \in Units |-> NoEvent]
    /\ queue = [u \in Units |-> <<>>]
    /\ timer = [u \in Units |-> IF u = "C" THEN SettleDelay ELSE -1]
    /\ calls = 0
    /\ last = Entry("-", "init", "-", -1, -1, NoErr, FALSE)

Next3 ==
    \/ Tick
    \/ \E u \in Units : TimerFire(u)
    \/ \E u \in Units : Publish(u)
    \/ \E u \in Units : Deliver(u)
    \/ calls < MaxCallsFew /\ Mutate("A")

Spec3 == Init3 /\ [][Next3]_vars

(* Late join: A performs successful mutations, then B is constructed and  *)
(* no unit calls the Mutation API afterwards.                              *)
NextLate ==
    \/ Boot("B")
    \/ Tick
    \/ \E u \in Pair : TimerFire(u)
    \/ \E u \in Pair : Publish(u)
    \/ \E u \in Pair : Deliver(u)
    \/ /\ ~booted["B"]
       /\ calls < MaxCallsLate
       /\ Mutate("A")
       /\ last'.err = NoErr

SpecLate == Init /\ [][NextLate]_vars

(* ------------------------------ claims --------------------------------- *)

\* the occupied slots of unit u
Occupied(u) == {i \in Index : has(plans[u], i)}

\* no publish is in progress and the transport holds no undelivered event
Quiescent == \A u \in Pair : outbox[u] = NoEvent /\ queue[u] = <<>>

\* C1 (as claimed): with A the only caller and in-order delivery, once every
\* published event has been delivered B's occupied slots are A's occupied slots.
C1_SingleWriterConvergence ==
    Quiescent => Occupied("B") = Occupied("A")

\* unit B's snapshot request has been published, answered and the answer applied
RoundTripDone == booted["B"] /\ timer["B"] = -1 /\ Quiescent

\* C2 (as claimed): after the late-joining unit B's settling delay and one snapshot
\* round trip, B occupies exactly the slots A occupies, with the content A holds there.
C2_LateJoinReconciled ==
    RoundTripDone =>
        /\ Occupied("B") = Occupied("A")
        /\ \A i \in Occupied("A") :
              serialize(plans["B"][i]) = serialize(plans["A"][i])

(* ---- steps, recognised by what they write ---- *)

MutationTopics == {"create", "delete", "deleteAll", "copy", "swap"}

\* this step is a local call of Mutation API method op (on unit last'.unit)
CallStep(op) == calls' = calls + 1 /\ last'.kind = "call" /\ last'.op = op

\* this step is the replay of a remote event of topic op by unit last'.unit's handler
ReplayStep(op) ==
    /\ last'.kind = "replay" /\ last'.op = op
    /\ Len(queue'[last'.unit]) < Len(queue[last'.unit])

\* this step runs method op on unit last'.unit, called locally or replayed
RunStep(op) == CallStep(op) \/ ReplayStep(op)

\* this step is unit u's publish call looping back and returning
LoopbackStep(u) == outbox[u] # NoEvent /\ outbox'[u] # outbox[u]

\* this step hands no event to sendEvent and none to the transport
NothingPublished ==
    /\ outbox' = outbox
    /\ ignoreSync' = ignoreSync
    /\ \A v \in Units : Len(queue'[v]) <= Len(queue[v])

\* C3: when a unit's own mutation event is looped back to it inside the publish
\* call, its table stays as the local mutation left it, the handler raises no
\* error, and the unit publishes nothing further.
C3_EchoSuppressed ==
    [][\A u \in Pair :
          (LoopbackStep(u) /\ outbox[u].topic \in MutationTopics) =>
              /\ plans'[u] = plans[u]
              /\ last'.err = NoErr
              /\ outbox'[u] = NoEvent
              /\ ~ignoreSync'[u]
              /\ \A v \in Units : Len(queue'[v]) <= Len(queue[v]) + 1
              /\ Len(queue'[u]) = Len(queue[u])]_vars

\* a copy onto an occupied target has been looped back to its publisher
C3_Witness ==
    /\ last.kind = "loopback" /\ last.op = "copy" /\ last.a # last.b
    /\ plans[last.unit][last.b].version = 1
    /\ \E v \in Pair : v # last.unit /\ Len(queue[v]) > 0

\* C4 (as claimed): whenever swap(a, b) fails, for any a and b, the table is as it
\* was before the call and no event is published.
C4_SwapFailureAtomic ==
    [][(RunStep("swap") /\ last'.err # NoErr) =>
          (plans' = plans /\ NothingPublished)]_vars

\* C5 (as claimed): swap(a, b) fails exactly when slot a or slot b is empty; when
\* both are occupied it exchanges the two occupants and leaves the other slots alone.
C5_SwapExchanges ==
    [][RunStep("swap") =>
          LET u == last'.unit
              a == last'.a
              b == last'.b
          IN  /\ (last'.err # NoErr) <=> (~has(plans[u], a) \/ ~has(plans[u], b))
              /\ last'.err = NoErr =>
                    /\ plans'[u][a] = plans[u][b]
                    /\ plans'[u][b] = plans[u][a]
                    /\ \A i \in Index \ {a, b} : plans'[u][i] = plans[u][i]]_vars

\* C6 (as claimed): every plan occupying slot i reports index i.
C6_SlotIndexTag ==
    \A u \in Pair : \A i \in Index : has(plans[u], i) => plans[u][i].index = i

\* C7: create(i) on an occupied slot fails with SlotAlreadyOccupied, leaves the
\* whole table unchanged and publishes no event.
C7_CreateOccupiedFails ==
    [][(RunStep("create") /\ has(plans[last'.unit], last'.a)) =>
          /\ last'.err = SlotAlreadyOccupied
          /\ plans' = plans
          /\ NothingPublished]_vars

\* a local create on an occupied slot has failed
C7_Witness ==
    /\ last.kind = "call" /\ last.op = "create" /\ last.err = SlotAlreadyOccupied
    /\ has(plans[last.unit], last.a)

\* C8: delete(i) on an empty slot fails with SlotNotFound, leaves the table
\* unchanged and publishes no event; on an occupied slot it empties exactly slot i.
C8_DeleteFrame ==
    [][RunStep("delete") =>
          LET u == last'.unit
              i == last'.a
          IN  IF ~has(plans[u], i)
              THEN /\ last'.err = SlotNotFound
                   /\ plans' = plans
                   /\ NothingPublished
              ELSE /\ last'.err = NoErr
                   /\ ~has(plans'[u], i)
                   /\ \A j \in Index \ {i} : plans'[u][j] = plans[u][j]
                   /\ \A v \in Units \ {u} : plans'[v] = plans[v]]_vars

\* a replayed delete has emptied a slot below one that stays occupied
C8_Witness ==
    /\ last.kind = "replay" /\ last.op = "delete" /\ last.err = NoErr
    /\ ~has(plans[last.unit], last.a)
    /\ \E j \in Index : j > last.a /\ has(plans[last.unit], j)

\* C9: in every reachable state has(i) is true exactly when get(i) succeeds, and
\* get leaves the table as it is (has returns a boolean and writes nothing); right
\* after a successful create(i) both hold; right after a successful delete(i) or a
\* deleteAll() has(i) is false and get(i) fails with SlotNotFound.
C9_PresenceConsistency ==
    /\ \A u \in Pair : \A i \in Index :
          /\ has(plans[u], i) <=> (get(plans[u], i).err = NoErr)
          /\ has(plans[u], i) \in BOOLEAN
          /\ get(plans[u], i).plans = plans[u]
    /\ (last.kind \in {"call", "replay"} /\ last.op = "create" /\ last.err = NoErr) =>
          /\ has(plans[last.unit], last.a)
          /\ get(plans[last.unit], last.a).err = NoErr
    /\ (last.kind \in {"call", "replay"} /\ last.op = "delete" /\ last.err = NoErr) =>
          /\ ~has(plans[last.unit], last.a)
          /\ get(plans[last.unit], last.a).err = SlotNotFound
    /\ (last.kind \in {"call", "replay"} /\ last.op = "deleteAll") =>
          \A i \in Index :
              /\ ~has(plans[last.unit], i)
              /\ get(plans[last.unit], i).err = SlotNotFound

\* a local deleteAll has emptied a table that held a plan, another unit still holding one
C9_Witness ==
    /\ last.kind = "call" /\ last.op = "deleteAll"
    /\ Occupied(last.unit) = {}
    /\ \E v \in Pair : Occupied(v) # {}

\* C10: copy(source, target) fails with SlotNotFound and changes nothing when the
\* source is empty; otherwise it succeeds whether or not the target is occupied,
\* the target then holds a plan tagged target whose version is the source's plus
\* one, and every other slot is unchanged.
C10_CopyEffect ==
    [][RunStep("copy") =>
          LET u == last'.unit
              from == last'.a
              to == last'.b
          IN  IF ~has(plans[u], from)
              THEN /\ last'.err = SlotNotFound
                   /\ plans' = plans
                   /\ NothingPublished
              ELSE /\ last'.err = NoErr
                   /\ plans'[u][to] =
                         [index |-> to, version |-> plans[u][from].version + 1]
                   /\ \A j \in Index \ {to} : plans'[u][j] = plans[u][j]
                   /\ \A v \in Units \ {u} : plans'[v] = plans[v]]_vars

\* a local copy between two distinct slots has succeeded from a source of version 1
C10_Witness ==
    /\ last.kind = "call" /\ last.op = "copy" /\ last.err = NoErr /\ last.a # last.b
    /\ plans[last.unit][last.b].version = 2
    /\ plans[last.unit][last.a].version = 1

\* the table of unit u shows the effect of the mutation that event ev announces
Announced(u, ev) ==
    CASE ev.topic = "create"    -> has(plans[u], ev.planIndex)
      [] ev.topic = "delete"    -> ~has(plans[u], ev.planIndex)
      [] ev.topic = "deleteAll" -> Occupied(u) = {}
      [] ev.topic = "copy"      -> has(plans[u], ev.targetPlanIndex)
      [] ev.topic = "swap"      -> has(plans[u], ev.planIndex) /\ has(plans[u], ev.targetPlanIndex)
      [] OTHER                  -> TRUE

\* C11: a successful local mutation call hands exactly one event to the publisher,
\* of the call's topic and with the call's index arguments, the table being updated
\* before the event reaches the transport; the publish then gives every other
\* constructed unit that one event; a failing call publishes nothing.
C11_BroadcastOnSuccess ==
    /\ [][\A op \in MutationTopics :
            CallStep(op) =>
                LET u == last'.unit
                IN  IF last'.err = NoErr
                    THEN /\ outbox'[u] = Event(op, last'.a, last'.b)
                         /\ ignoreSync'[u]
                         /\ queue' = queue
                    ELSE NothingPublished]_vars
    /\ [][\A u \in Pair :
            (LoopbackStep(u) /\ outbox[u].topic \in MutationTopics) =>
                /\ Announced(u, outbox[u])
                /\ \A v \in Units :
                      queue'[v] = IF v # u /\ booted[v]
                                  THEN Append(queue[v], outbox[u])
                                  ELSE queue[v]]_vars

\* a successful swap is inside its publish, the other unit running
C11_Witness ==
    /\ last.kind = "call" /\ last.op = "swap" /\ last.err = NoErr
    /\ outbox[last.unit] = Event("swap", last.a, last.b)
    /\ \E v \in Pair : v # last.unit /\ booted[v]

\* C12: deleteAll, called locally or replayed, never fails and leaves every slot
\* of the unit empty whatever its table held.
C12_DeleteAllClears ==
    [][RunStep("deleteAll") =>
          /\ last'.err = NoErr
          /\ plans'[last'.unit] = EmptyTable
          /\ \A v \in Units \ {last'.unit} : plans'[v] = plans[v]]_vars

\* B has replayed A's deleteAll while A's table already holds a plan again
C12_Witness ==
    /\ last.kind = "replay" /\ last.op = "deleteAll" /\ last.unit = "B"
    /\ Occupied("B") = {}
    /\ Occupied("A") # {}

\* C13 (as claimed): whatever its topic, an event delivered to a unit's own handlers
\* while the unit is inside its publish call is discarded: the unit's table is left
\* as it was and the unit publishes nothing; a responder does not apply its own
\* looped-back snapshot-response.
C13_GuardCoversEveryTopic ==
    [][\A u \in Pair :
          LoopbackStep(u) =>
              /\ plans'[u] = plans[u]
              /\ outbox'[u] = NoEvent
              /\ ~ignoreSync'[u]]_vars

\* the Mutation API call that replays event ev on table t throws
ReplayFails(t, ev) ==
    CASE ev.topic = "create" -> has(t, ev.planIndex)
      [] ev.topic = "delete" -> ~has(t, ev.planIndex)
      [] ev.topic = "copy"   -> ~has(t, ev.planIndex)
      [] ev.topic = "swap"   -> ~has(t, ev.planIndex) \/ ~has(t, ev.targetPlanIndex)
      [] OTHER               -> FALSE

\* C14 (as claimed): when the replay of a create, delete, copy or swap event fails,
\* no error leaves the handler, the unit's table is left as it was and nothing is
\* published; the event is consumed and later events are processed.
C14_ReplayFailureSwallowed ==
    [][\A op \in {"create", "delete", "copy", "swap"} :
          (ReplayStep(op) /\ ReplayFails(plans[last'.unit], Head(queue[last'.unit]))) =>
              /\ last'.err = NoErr
              /\ plans' = plans
              /\ NothingPublished
              /\ queue'[last'.unit] = Tail(queue[last'.unit])]_vars

\* the events of seq whose topic is a mutation topic
MutationEvents(seq) == SelectSeq(seq, LAMBDA ev : ev.topic \in MutationTopics)

\* C15: the replay of a remote mutation event or of a snapshot-response publishes
\* nothing, whether it succeeds or fails; so the mutation events on the transport are
\* those of the caller's own calls, at most one per call, and none comes back to it.
C15_NoRebroadcast ==
    /\ [][\A op \in MutationTopics \cup {"syncResponse"} :
            ReplayStep(op) => NothingPublished]_vars
    /\ [](/\ MutationEvents(queue["A"]) = <<>>
          /\ outbox["B"].topic \notin MutationTopics
          /\ Len(MutationEvents(queue["B"])) <= calls)

\* B has replayed A's copy with success and nothing is being published or in flight
C15_Witness ==
    /\ last.kind = "replay" /\ last.op = "copy" /\ last.unit = "B" /\ last.err = NoErr
    /\ \A u \in Pair : outbox[u] = NoEvent /\ queue[u] = <<>>
    /\ plans["B"] = plans["A"]

\* C16 (as claimed): a unit that receives another unit's snapshot-request publishes one
\* snapshot-response whose keys are exactly its occupied slot indices, key i carrying
\* the serialized plan that occupies slot i; the requester does not answer its own
\* looped-back request.
C16_SnapshotAnswer ==
    [][\A u \in Pair :
          /\ (ReplayStep("syncRequest") /\ last'.unit = u) =>
                /\ outbox'[u] = ResponsePacket([i \in Occupied(u) |-> serialize(plans[u][i])])
                /\ \A v \in Units : Len(queue'[v]) <= Len(queue[v])
          /\ (LoopbackStep(u) /\ outbox[u].topic = "syncRequest") =>
                outbox'[u] = NoEvent]_vars

\* C17: a unit that applies a snapshot-response replaces the occupant of every listed
\* index by the deserialized plan, tagged with that index, and leaves every index the
\* response does not list as it was, occupied or empty.
C17_PerIndexOverwrite ==
    [][\A u \in Pair :
          (ReplayStep("syncResponse") /\ last'.unit = u) =>
              LET ev == Head(queue[u])
              IN  /\ last'.err = NoErr
                  /\ \A i \in Index :
                        IF i \in DOMAIN ev.plans
                        THEN /\ has(plans'[u], i)
                             /\ plans'[u][i].index = i
                             /\ serialize(plans'[u][i]) = ev.plans[i]
                        ELSE plans'[u][i] = plans[u][i]]_vars

\* B has applied a response listing slot i, which it now holds like A, and keeps a slot
\* j of its own that the response did not list and that A does not hold
C17_Witness ==
    /\ last.kind = "replay" /\ last.op = "syncResponse" /\ last.unit = "B"
    /\ \E i, j \in Index :
          /\ i # j
          /\ has(plans["A"], i) /\ plans["B"][i] = plans["A"][i]
          /\ has(plans["B"], j) /\ ~has(plans["A"], j)

\* unit u starts publishing a snapshot-request in this step
RequestStep(u) == outbox'[u].topic = "syncRequest" /\ outbox'[u] # outbox[u]

\* C18: the master never publishes a snapshot-request; a non-master unit arms its
\* timer with the settling delay when constructed, publishes its request only when
\* that delay has run out, does publish it, and never publishes another.
C18_BootstrapRequest ==
    /\ [](\A u \in Pair : master[u] =>
             /\ timer[u] = -1
             /\ outbox[u].topic # "syncRequest"
             /\ \A v \in Pair \ {u} : \A k \in 1..Len(queue[v]) : queue[v][k].topic # "syncRequest")
    /\ [][\A u \in Pair :
            /\ RequestStep(u) =>
                  ~master[u] /\ timer[u] = 0 /\ timer'[u] = -1 /\ last'.kind = "timer"
            /\ (~booted[u] /\ booted'[u] /\ ~master[u]) => timer'[u] = SettleDelay
            /\ (booted[u] /\ timer[u] > 0) =>
                  timer'[u] \in {timer[u], IF timer[u] > TickMs THEN timer[u] - TickMs ELSE 0}
            /\ (booted[u] /\ timer[u] = 0 /\ timer'[u] # 0) => RequestStep(u)
            /\ (booted[u] /\ timer[u] = -1) => (timer'[u] = -1 /\ ~RequestStep(u))]_vars
    /\ \A u \in Pair : (booted[u] /\ ~master[u]) ~> (timer[u] = -1 /\ outbox[u] = NoEvent)

\* B's only request has been published and answered, long after its timer was spent
C18_Witness ==
    /\ booted["B"] /\ timer["B"] = -1
    /\ last.kind = "replay" /\ last.op = "syncResponse" /\ last.unit = "B"
    /\ Quiescent

\* unit u enters sendEvent in this step
SendEventStep(u) == outbox'[u] # NoEvent /\ outbox'[u] # outbox[u]

\* C19: sendEvent is never entered while the unit's suppressing flag is already true;
\* the flag is true exactly while a publish of the unit is in progress, hence false in
\* every state where none is.
C19_FlagInvariant ==
    /\ [](\A u \in Units : ignoreSync[u] <=> outbox[u] # NoEvent)
    /\ [][\A u \in Units :
            SendEventStep(u) =>
                ~ignoreSync[u] /\ outbox[u] = NoEvent /\ ignoreSync'[u]]_vars

\* A's handler has entered sendEvent to answer B's snapshot-request
C19_Witness ==
    /\ last.kind = "replay" /\ last.op = "syncRequest" /\ last.unit = "A"
    /\ outbox["A"].topic = "syncResponse" /\ ignoreSync["A"]
    /\ outbox["B"] = NoEvent /\ ~ignoreSync["B"]

\* C20: every unit that receives a snapshot-response applies it, the master and the
\* units that did not ask included: each listed slot is occupied afterwards by the
\* plan of the response, even where the receiver's slot was empty.
C20_ResponseAppliedByAll ==
    [][\A u \in Units :
          (ReplayStep("syncResponse") /\ last'.unit = u) =>
              \A i \in DOMAIN Head(queue[u]).plans :
                  /\ has(plans'[u], i)
                  /\ serialize(plans'[u][i]) = Head(queue[u]).plans[i]]_vars

\* A created slot i and deleted it (its two calls; the delete event is still on its way
\* to some unit), and B's answer to C's request, taken before B replayed the delete,
\* has made slot i occupied again on A
C20_Witness ==
    /\ calls = 2
    /\ last.kind = "replay" /\ last.op = "syncResponse" /\ last.unit = "A"
    /\ \E i \in Index :
          /\ has(plans["A"], i)
          /\ \E v \in Units \ {"A"} : \E k \in 1..Len(queue[v]) :
                queue[v][k] = Event("delete", i, -1)

====
